---------------------------- MODULE Spec2Model ----------------------------
(***************************************************************************)
(* alphabet-reading: one recorded clip per letter, kept in IndexedDB, and  *)
(* a word player that plays the clips of a typed word.                     *)
(*                                                                         *)
(* src/app.js holds two revisions of the application, one after the other: *)
(*   lines   1-347  recorder.onstop trims silence before saving; playWord  *)
(*                  starts clip i on a timer at i * delay  (Offset policy) *)
(*   lines 349-609  recorder.onstop saves the raw clip; playWord chains    *)
(*                  the clips one after the other           (Gap policy)   *)
(* The variable `policy` says which revision runs; it never changes.       *)
(*                                                                         *)
(* The page is single-threaded: every action below is one task of the      *)
(* event loop (a click handler, a promise callback, a timer, a media       *)
(* event) run to completion, together with the microtasks it triggers.     *)
(***************************************************************************)
EXTENDS Integers, Sequences, FiniteSets, TLC

\* ------------------------------------------------------------------ bounds
MaxSessions == 3      \* getUserMedia requests made in one run
MaxWordLen  == 2      \* characters typed into the word input

MaxLength   == 500    \* samples per channel of the longest decoded clip

\* ------------------------------------------------------- program constants
EstimateMs == 1500    \* "startAt + 1500", the per-clip estimate of playWord
threshold  == 10      \* "threshold = 0.01", in thousandths of full scale
Int16Max   == 32767   \* "clamped * 0x7FFF"

\* ------------------------------------------------------------ the alphabet
\* The model's part of [a-z] and of the letter cards (LETTERS is A..Z), and
\* the characters the model types: a lower-case letter, an upper-case
\* letter, a digit and a blank.
AZ       == {"a", "b"}
LETTERS  == {"A", "B"}
Chars    == {"a", "B", "3", " "}

toLowerCase(c) ==
  CASE c = "A" -> "a" [] c = "B" -> "b" [] OTHER -> c

toUpperCase(c) ==
  CASE c = "a" -> "A" [] c = "b" -> "B" [] OTHER -> c

\* How long a clip plays, in ms: a clip is short or long. The clip of a that
\* the page may find in the store is a short one, the clip of b a long one;
\* a trimmed recording is short, an untrimmed one long.
ShortMs == 500
LongMs  == 1600

\* A stored clip: the session that recorded it (0: it was in the store when
\* the page loaded), its encoding and how long it plays.
NoClip  == [src |-> -1, kind |-> "none", ms |-> 0]
OldClip(k) == [src |-> 0, kind |-> "wav", ms |-> IF k = "a" THEN ShortMs ELSE LongMs]
Clip(r, k) == [src |-> r, kind |-> k, ms |-> IF k = "wav" THEN ShortMs ELSE LongMs]

Sessions == 1 .. MaxSessions
NoLetter == "null"

\* ------------------------------------------------------------ trimSilence
\* What decodeAudioData returns: an AudioBuffer of `length` sample frames at
\* `sampleRate` Hz with numberOfChannels channels. A sample is an amplitude
\* in thousandths of full scale; peaks gives the samples that are not zero,
\* by index, and every channel carries the same samples.
SampleRates == {8000, 11025}
Channels    == {1, 2}
Lengths     == {0, 1, MaxLength}
Positions   == {0, 150, 250, 260, MaxLength - 1}
\* at the threshold, above it (negative), and beyond full scale
Amplitudes  == {10, -20, 1200}

DecodedAudio ==
  UNION {
    UNION {
      {[length |-> n, sampleRate |-> sr, numberOfChannels |-> nc, peaks |-> f]
         : sr \in SampleRates, nc \in Channels, f \in [P -> Amplitudes]}
      : P \in SUBSET {q \in Positions : q < n}}
    : n \in Lengths}

NoAudio == [length |-> -1, sampleRate |-> 0, numberOfChannels |-> 0,
            peaks |-> <<>>]

\* audioBuffer.getChannelData(ch)[i]
getChannelData(a, ch, i) == IF i \in DOMAIN a.peaks THEN a.peaks[i] ELSE 0

\* Math.abs, Math.max, Math.min
abs(x)    == IF x < 0 THEN -x ELSE x
max(x, y) == IF x >= y THEN x ELSE y
min(x, y) == IF x <= y THEN x ELSE y

\* margin with Math.round in the place of Math.floor.
margin_Rounded(sampleRate) == (sampleRate * 2 + 50) \div 100

\* Math.floor(sampleRate * 0.02)
margin(sampleRate) == (sampleRate * 2) \div 100

\* isLoud with >= in the place of >.
isLoud_AtThreshold(x) == abs(x) >= threshold

\* Math.abs(channel[i]) > threshold
isLoud(x) == abs(x) > threshold

\* scanStart without the Math.max(0, ...) around i - margin.
scanStart_NoClamp(a) ==
  LET hits == {i \in 0 .. a.length - 1 : isLoud(getChannelData(a, 0, i))}
  IN  IF hits = {} THEN 0
      ELSE LET i == CHOOSE i \in hits : \A h \in hits : i <= h
           IN  i - margin(a.sampleRate)

\* The first loop of trimSilence: i runs up from 0 and the loop breaks at the
\* first loud sample; start after it.
scanStart(a) ==
  LET hits == {i \in 0 .. a.length - 1 : isLoud(getChannelData(a, 0, i))}
  IN  IF hits = {} THEN 0
      ELSE LET i == CHOOSE i \in hits : \A h \in hits : i <= h
           IN  max(0, i - margin(a.sampleRate))

\* scanEnd without the margin after the last loud sample.
scanEnd_NoMargin(a, start) ==
  LET hits == {i \in start .. a.length - 1 : isLoud(getChannelData(a, 0, i))}
  IN  IF hits = {} THEN a.length
      ELSE LET i == CHOOSE i \in hits : \A h \in hits : i >= h
           IN  min(a.length, i)

\* The second loop of trimSilence: i runs down from length - 1 to start and
\* the loop breaks at the first loud sample; end after it.
scanEnd(a, start) ==
  LET hits == {i \in start .. a.length - 1 : isLoud(getChannelData(a, 0, i))}
  IN  IF hits = {} THEN a.length
      ELSE LET i == CHOOSE i \in hits : \A h \in hits : i >= h
           IN  min(a.length, i + margin(a.sampleRate))

\* DataView.setUint32, setUint16: the value modulo the field's width. A value
\* of the model is a non-negative integer below 2^31, which a 32-bit field
\* holds as it is.
setUint32(x) == x
setUint16(x) == x % 65536

\* setInt16(offset, clamped * 0x7FFF): the product truncated to an integer.
setInt16(sample) ==
  LET clamped == max(-1000, min(1000, sample))
      product == clamped * Int16Max
  IN  IF product >= 0 THEN product \div 1000 ELSE -((-product) \div 1000)

\* wavHeader with the byte rate of one channel.
wavHeader_MonoByteRate(sampleRate, numChannels, length) ==
  [riff          |-> "RIFF",
   riffSize      |-> setUint32(36 + length * numChannels * 2),
   wave          |-> "WAVE",
   fmt           |-> "fmt ",
   fmtSize       |-> setUint32(16),
   format        |-> setUint16(1),
   numChannels   |-> setUint16(numChannels),
   sampleRate    |-> setUint32(sampleRate),
   byteRate      |-> setUint32(sampleRate * 2),
   blockAlign    |-> setUint16(numChannels * 2),
   bitsPerSample |-> setUint16(16),
   data          |-> "data",
   dataSize      |-> setUint32(length * numChannels * 2)]

\* The 44-byte header trimSilence writes, by field.
wavHeader(sampleRate, numChannels, length) ==
  [riff          |-> "RIFF",
   riffSize      |-> setUint32(36 + length * numChannels * 2),
   wave          |-> "WAVE",
   fmt           |-> "fmt ",
   fmtSize       |-> setUint32(16),
   format        |-> setUint16(1),
   numChannels   |-> setUint16(numChannels),
   sampleRate    |-> setUint32(sampleRate),
   byteRate      |-> setUint32(sampleRate * numChannels * 2),
   blockAlign    |-> setUint16(numChannels * 2),
   bitsPerSample |-> setUint16(16),
   data          |-> "data",
   dataSize      |-> setUint32(length * numChannels * 2)]

\* The interleaved samples trimSilence writes: byte offset -> int16, for the
\* samples that are not zero; every other sample of the window is written 0.
wavSamples(a, start, end) ==
  LET numChannels == a.numberOfChannels
      written == {q \in DOMAIN a.peaks : start <= q /\ q < end}
                   \X (0 .. numChannels - 1)
      at(w)   == 44 + ((w[1] - start) * numChannels + w[2]) * 2
  IN  [o \in {at(w) : w \in written} |->
         LET w == CHOOSE w \in written : at(w) = o
         IN  setInt16(getChannelData(a, w[2], w[1]))]

\* trimSilence(blob) from the decoded audio on: the window, and the WAV blob
\* with the size of its ArrayBuffer, its header, the samples written and the
\* offset the write loop ends at.
trimResult(a) ==
  LET start  == scanStart(a)
      end    == scanEnd(a, start)
      length == end - start
      numChannels == a.numberOfChannels
  IN  [margin     |-> margin(a.sampleRate),
       start      |-> start,
       end        |-> end,
       byteLength |-> 44 + length * numChannels * 2,
       header     |-> wavHeader(a.sampleRate, numChannels, length),
       samples    |-> wavSamples(a, start, end),
       offset     |-> 44 + length * numChannels * 2,
       type       |-> "audio/wav"]

NoTrim == [type |-> "none"]

VARIABLES
  policy,                  \* "Offset" | "Gap": the revision that runs
  \* ---- recording
  currentRecorder,         \* 0 (null) or the session of the current recorder
  currentRecordingLetter,  \* NoLetter or the letter being recorded
  sessions,                \* per getUserMedia request: letter, state, ...
  nextSession,             \* requests made so far
  store,                   \* IndexedDB 'recordings': key -> clip
  alerts,                  \* alert() calls made
  \* ---- word player
  isPlayingWord,           \* the busy flag
  disabled,                \* playWordBtn.disabled
  wordMessage,             \* the letters wordMessage reports, <<>> when ''
  letters,                 \* playWord's letters
  delay,                   \* playWord's delay / gap (the speed slider)
  missing,                 \* playWord's missing
  blobs,                   \* what getRecording returned, per letter looked up
  phase,                   \* where the active playWord stands
  timers,                  \* pending setTimeout callbacks
  clips,                   \* the word's Audio elements: playing, or how they ended
  now,                     \* ms of timers and playback since playWord was accepted
  doneAt,                  \* now when the word's completion ran, -1 before
  lastPlayWord,            \* how the last playWord call returned
  \* ---- trimSilence
  audio,                   \* the AudioBuffer decodeAudioData resolved with
  trimmed                  \* what trimSilence computed from it

recVars == <<currentRecorder, currentRecordingLetter, sessions, nextSession,
             store, alerts>>
wordVars == <<isPlayingWord, disabled, wordMessage, letters, delay, missing,
              blobs, phase, timers, clips, now, doneAt, lastPlayWord>>
trimVars == <<audio, trimmed>>
vars == <<policy, trimVars, recVars, wordVars, trimVars>>

\* A session that has not been requested yet.
Unused == [letter |-> NoLetter, state |-> "unused", stopped |-> 0, puts |-> 0]

\* The states of a session:
\*   unused     no startRecording call has made it yet
\*   requested  getUserMedia is pending
\*   denied     getUserMedia rejected
\*   recording  recorder.start() ran: MediaRecorder.state = 'recording'
\*   inactive   recorder.stop() ran, the stop event is queued
\*   trimming   onstop ran, trimSilence is pending          (Offset revision)
\*   savingWav  saveRecording(trimmed) is pending           (Offset revision)
\*   savingRaw  saveRecording(blob) is pending: trimSilence rejected, or
\*              the revision does not trim
\*   resavingRaw  saveRecording(blob) is pending: trimSilence fulfilled and
\*              saveRecording(trimmed) rejected               (Offset revision)
\*   saved      a put of this session completed
\*   failed     the last put of this session failed
SessionStates == {"unused", "requested", "denied", "recording", "inactive",
                  "trimming", "savingWav", "savingRaw", "resavingRaw", "saved",
                  "failed"}

Recording == {r \in Sessions : sessions[r].state = "recording"}

\* ------------------------------------------------------------------- Init
\* The page after its script ran: no recorder, no word playing, and in the
\* store what earlier visits left there.
InitApp ==
  /\ policy \in {"Offset", "Gap"}
  /\ currentRecorder = 0
  /\ currentRecordingLetter = NoLetter
  /\ sessions = [r \in Sessions |-> Unused]
  /\ nextSession = 0
  /\ \E have \in SUBSET AZ :
       store = [k \in AZ |-> IF k \in have THEN OldClip(k) ELSE NoClip]
  /\ alerts = 0
  /\ isPlayingWord = FALSE
  /\ disabled = FALSE
  /\ wordMessage = <<>>
  /\ letters = <<>>
  /\ delay = 0
  /\ missing = <<>>
  /\ blobs = <<>>
  /\ phase = "idle"
  /\ timers = {}
  /\ clips = {}
  /\ now = 0
  /\ doneAt = -1
  /\ lastPlayWord = "none"

Init ==
  /\ InitApp
  /\ audio = NoAudio
  /\ trimmed = NoTrim

\* trimSilence on its own: the Offset revision with an empty store, and a
\* clip decoded to any of the AudioBuffers of DecodedAudio.
InitTrim ==
  /\ InitApp
  /\ policy = "Offset"
  /\ store = [k \in AZ |-> NoClip]
  /\ audio \in DecodedAudio
  /\ trimmed = NoTrim

\* -------------------------------------------------------------- recording
\* stopCurrentRecording(): the sessions after the call.
stopCurrentRecording(ss) ==
  IF currentRecorder # 0 /\ ss[currentRecorder].state = "recording"
  THEN [ss EXCEPT ![currentRecorder].state = "inactive"]
  ELSE ss

\* The session stopCurrentRecording() stops, 0 when it stops none.
StoppedByCall ==
  IF currentRecorder # 0 /\ sessions[currentRecorder].state = "recording"
  THEN currentRecorder ELSE 0

\* startRecording(letter), up to the getUserMedia call.
startRecording(letter) ==
  IF currentRecordingLetter = letter
  THEN /\ sessions' = stopCurrentRecording(sessions)
       /\ UNCHANGED <<currentRecorder, currentRecordingLetter, nextSession,
                      store, alerts, policy, trimVars, wordVars>>
  ELSE /\ nextSession < MaxSessions
       /\ nextSession' = nextSession + 1
       /\ sessions' = [stopCurrentRecording(sessions) EXCEPT
                         ![nextSession + 1] =
                            [letter |-> letter, state |-> "requested",
                             stopped |-> StoppedByCall, puts |-> 0]]
       /\ UNCHANGED <<currentRecorder, currentRecordingLetter, store, alerts,
                      policy, trimVars, wordVars>>

\* getUserMedia resolved: the .then callback of startRecording.
DeviceGranted(r) ==
  /\ sessions[r].state = "requested"
  /\ currentRecorder' = r
  /\ currentRecordingLetter' = sessions[r].letter
  /\ sessions' = [sessions EXCEPT ![r].state = "recording"]
  /\ UNCHANGED <<nextSession, store, alerts, policy, trimVars, wordVars>>

\* DeviceDenied with the recorder fields reset in the .catch callback.
DeviceDenied_ResetsCurrent(r) ==
  /\ sessions[r].state = "requested"
  /\ sessions' = [sessions EXCEPT ![r].state = "denied"]
  /\ alerts' = alerts + 1
  /\ currentRecorder' = 0
  /\ currentRecordingLetter' = NoLetter
  /\ UNCHANGED <<nextSession, store, policy, trimVars, wordVars>>

\* getUserMedia rejected: the .catch callback of startRecording.
DeviceDenied(r) ==
  /\ sessions[r].state = "requested"
  /\ sessions' = [sessions EXCEPT ![r].state = "denied"]
  /\ alerts' = alerts + 1
  /\ UNCHANGED <<currentRecorder, currentRecordingLetter, nextSession, store,
                 policy, trimVars, wordVars>>

\* The stop event of a stopped recorder: recorder.onstop.
RecorderOnStop(r) ==
  /\ sessions[r].state = "inactive"
  /\ sessions' = [sessions EXCEPT ![r].state =
                    IF policy = "Offset" THEN "trimming" ELSE "savingRaw"]
  /\ currentRecorder' = 0
  /\ currentRecordingLetter' = NoLetter
  /\ UNCHANGED <<nextSession, store, alerts, policy, trimVars, wordVars>>

\* trimSilence(blob) settled: ok, or rejected with a decode error.
TrimSettled(r, ok) ==
  /\ sessions[r].state = "trimming"
  /\ sessions' = [sessions EXCEPT ![r].state =
                    IF ok THEN "savingWav" ELSE "savingRaw"]
  /\ UNCHANGED <<currentRecorder, currentRecordingLetter, nextSession, store,
                 alerts, policy, trimVars, wordVars>>

\* saveRecording(letter.toLowerCase(), trimmed) settled. A rejection runs the
\* .catch of onstop, which saves the original.
SaveTrimmedSettled(r, ok) ==
  /\ sessions[r].state = "savingWav"
  /\ IF ok
     THEN /\ store' = [store EXCEPT ![toLowerCase(sessions[r].letter)] =
                                       Clip(r, "wav")]
          /\ sessions' = [sessions EXCEPT ![r].state = "saved",
                                          ![r].puts = @ + 1]
     ELSE /\ store' = store
          /\ sessions' = [sessions EXCEPT ![r].state = "resavingRaw"]
  /\ UNCHANGED <<currentRecorder, currentRecordingLetter, nextSession, alerts,
                 policy, trimVars, wordVars>>

\* saveRecording(letter.toLowerCase(), blob) settled.
SaveRawSettled(r, ok) ==
  /\ sessions[r].state \in {"savingRaw", "resavingRaw"}
  /\ IF ok
     THEN /\ store' = [store EXCEPT ![toLowerCase(sessions[r].letter)] =
                                       Clip(r, "raw")]
          /\ sessions' = [sessions EXCEPT ![r].state = "saved",
                                          ![r].puts = @ + 1]
     ELSE /\ store' = store
          /\ sessions' = [sessions EXCEPT ![r].state = "failed"]
  /\ UNCHANGED <<currentRecorder, currentRecordingLetter, nextSession, alerts,
                 policy, trimVars, wordVars>>


\* ------------------------------------------------------------ word player
\* What the model types into the word input and sets the speed slider to.
Speeds    == {200, 300}
Words     == UNION {[1 .. n -> Chars] : n \in 0 .. MaxWordLen}

\* A busy playWord returns before it reads the input.
Typed     == IF isPlayingWord THEN {<<"a">>} ELSE Words

\* filterAZ without the toLowerCase(): an upper-case letter is dropped.
filterAZ_NoLowerCase(s) ==
  LET isLower(c) == c \in AZ IN SelectSeq(s, isLower)

RECURSIVE filterAZ(_)
\* raw.toLowerCase().split('').filter(c => /[a-z]/.test(c))
filterAZ(s) ==
  IF s = <<>> THEN <<>>
  ELSE LET c == toLowerCase(Head(s))
       IN  IF c \in AZ THEN <<c>> \o filterAZ(Tail(s)) ELSE filterAZ(Tail(s))

RECURSIVE trim(_)
\* String.prototype.trim: no white space at either end.
trim(s) ==
  IF s = <<>> THEN <<>>
  ELSE IF Head(s) = " " THEN trim(Tail(s))
  ELSE IF s[Len(s)] = " " THEN trim(SubSeq(s, 1, Len(s) - 1))
  ELSE s

\* newSet without the Set: every value kept.
newSet_KeepsDuplicates(s) == s

RECURSIVE newSet(_)
\* [...new Set(missing)]: each value once, in the order of first insertion.
newSet(s) ==
  IF s = <<>> THEN <<>>
  ELSE LET init == newSet(SubSeq(s, 1, Len(s) - 1))
           last == s[Len(s)]
       IN  IF \E i \in 1 .. Len(init) : init[i] = last
           THEN init ELSE Append(init, last)

\* getRecording(letter): request.result || null.
getRecording(letter) == store[letter]

Playing == {c \in clips : c.how = "playing"}

\* The times at which a timer is due or a playing clip reaches its end.
PendingTimes == {t.at : t \in timers} \cup {c.end : c \in Playing}
IsDue(time) == \A u \in PendingTimes : time <= u

\* new Audio(url) ... audio.play() of the clip of letter i at time t:
\* it plays to its end, or play() rejects and no event follows.
StartClip(i, t, blob, ok) ==
  [idx |-> i, start |-> t,
   end |-> IF ok THEN t + blob.ms ELSE t,
   how |-> IF ok THEN "playing" ELSE "rejected"]

\* The completion callback of playWord (lines 328-334, 594-600) at time t.
Completion(t, miss) ==
  /\ isPlayingWord' = FALSE
  /\ disabled' = FALSE
  /\ wordMessage' = IF Len(miss) > 0 THEN newSet(miss) ELSE wordMessage
  /\ phase' = "idle"
  /\ doneAt' = t

\* playWord without the "if (isPlayingWord) return" of its first line.
playWord_NoBusyCheck(raw, speed) ==
  IF trim(raw) = <<>> \/ Len(filterAZ(trim(raw))) = 0
  THEN /\ lastPlayWord' = "empty"
       /\ UNCHANGED <<policy, trimVars, recVars, isPlayingWord, disabled, wordMessage,
                      letters, delay, missing, blobs, phase, timers, clips,
                      now, doneAt>>
  ELSE /\ lastPlayWord' = IF isPlayingWord THEN "busy" ELSE "accepted"
       /\ letters' = filterAZ(trim(raw))
       /\ wordMessage' = <<>>
       /\ isPlayingWord' = TRUE
       /\ disabled' = TRUE
       /\ delay' = speed
       /\ missing' = <<>>
       /\ blobs' = <<>>
       /\ phase' = IF policy = "Offset" THEN "fetching" ELSE "lookup"
       /\ timers' = {}
       /\ clips' = {}
       /\ now' = 0
       /\ doneAt' = -1
       /\ UNCHANGED <<policy, trimVars, recVars>>

\* playWord(), the click or Enter handler, with the input's value and the
\* slider's value. The clock restarts with the word: it counts the time of
\* timers and of playback, and a store lookup takes none of it. A clip of an
\* earlier word that still plays is dropped from clips: its events only
\* revoke its URL.
playWord(raw, speed) ==
  LET trimmedRaw == trim(raw)
      filtered   == filterAZ(trimmedRaw)
  IN
  IF isPlayingWord
  THEN /\ lastPlayWord' = "busy"
       /\ UNCHANGED <<policy, trimVars, recVars, isPlayingWord, disabled, wordMessage,
                      letters, delay, missing, blobs, phase, timers, clips,
                      now, doneAt>>
  ELSE IF trimmedRaw = <<>> \/ Len(filtered) = 0
  THEN /\ lastPlayWord' = "empty"
       /\ UNCHANGED <<policy, trimVars, recVars, isPlayingWord, disabled, wordMessage,
                      letters, delay, missing, blobs, phase, timers, clips,
                      now, doneAt>>
  ELSE /\ lastPlayWord' = "accepted"
       /\ letters' = filtered
       /\ wordMessage' = <<>>
       /\ isPlayingWord' = TRUE
       /\ disabled' = TRUE
       /\ delay' = speed
       /\ missing' = <<>>
       /\ blobs' = <<>>
       /\ phase' = IF policy = "Offset" THEN "fetching" ELSE "lookup"
       /\ timers' = {}
       /\ clips' = {}
       /\ now' = 0
       /\ doneAt' = -1
       /\ UNCHANGED <<policy, trimVars, recVars>>

\* ---- Offset policy (lines 300-339)
\* lastEndTime with the slot of every letter counted, with a clip or not.
lastEndTime_EverySlot(bs, d) == (Len(bs) - 1) * d + EstimateMs

\* lastEndTime without the 1500 ms of the last clip.
lastEndTime_NoEstimate(bs, d) ==
  LET ends == {(i - 1) * d : i \in {j \in 1 .. Len(bs) : bs[j] # NoClip}}
  IN  IF ends = {} THEN 0 ELSE CHOOSE m \in ends : \A e \in ends : e <= m

\* lastEndTime after the forEach over blobs.
lastEndTime(bs, d) ==
  LET ends == {(i - 1) * d + EstimateMs : i \in {j \in 1 .. Len(bs) : bs[j] # NoClip}}
  IN  IF ends = {} THEN 0 ELSE CHOOSE m \in ends : \A e \in ends : e <= m

\* missing after the forEach over blobs.
RECURSIVE missingOf(_, _)
missingOf(ls, bs) ==
  IF ls = <<>> THEN <<>>
  ELSE IF Head(bs) = NoClip
       THEN <<toUpperCase(Head(ls))>> \o missingOf(Tail(ls), Tail(bs))
       ELSE missingOf(Tail(ls), Tail(bs))

\* FetchFulfilled with startAt counted over the letters that have a clip.
FetchFulfilled_SlotsOfClipsOnly ==
  /\ policy = "Offset" /\ phase = "fetching"
  /\ LET bs == [i \in 1 .. Len(letters) |-> getRecording(letters[i])]
         have == {j \in 1 .. Len(letters) : bs[j] # NoClip}
     IN  /\ blobs' = bs
         /\ missing' = missingOf(letters, bs)
         /\ timers' =
              {[kind |-> "clip", idx |-> i,
                at |-> now + Cardinality({j \in have : j < i}) * delay] :
                  i \in have}
              \cup {[kind |-> "done", idx |-> 0, at |-> now + lastEndTime(bs, delay)]}
  /\ phase' = "scheduled"
  /\ UNCHANGED <<policy, trimVars, recVars, isPlayingWord, disabled, wordMessage,
                 letters, delay, clips, now, doneAt, lastPlayWord>>

\* Promise.all(letters.map(getRecording)) fulfilled: the .then callback.
FetchFulfilled ==
  /\ policy = "Offset" /\ phase = "fetching"
  /\ LET bs == [i \in 1 .. Len(letters) |-> getRecording(letters[i])]
     IN  /\ blobs' = bs
         /\ missing' = missingOf(letters, bs)
         /\ timers' =
              {[kind |-> "clip", idx |-> i, at |-> now + (i - 1) * delay] :
                  i \in {j \in 1 .. Len(letters) : bs[j] # NoClip}}
              \cup {[kind |-> "done", idx |-> 0, at |-> now + lastEndTime(bs, delay)]}
  /\ phase' = "scheduled"
  /\ UNCHANGED <<policy, trimVars, recVars, isPlayingWord, disabled, wordMessage,
                 letters, delay, clips, now, doneAt, lastPlayWord>>

\* Promise.all rejected (a lookup failed): the .catch callback.
FetchRejected ==
  /\ policy = "Offset" /\ phase = "fetching"
  /\ isPlayingWord' = FALSE
  /\ disabled' = FALSE
  /\ phase' = "idle"
  /\ UNCHANGED <<policy, trimVars, recVars, wordMessage, letters, delay, missing, blobs,
                 timers, clips, now, doneAt, lastPlayWord>>

\* The timer of clip t.idx fires: the setTimeout callback of lines 311-321.
ClipTimer(t, ok) ==
  /\ t \in timers /\ t.kind = "clip" /\ IsDue(t.at)
  /\ now' = t.at
  /\ timers' = timers \ {t}
  /\ clips' = clips \cup {StartClip(t.idx, t.at, blobs[t.idx], ok)}
  /\ UNCHANGED <<policy, trimVars, recVars, isPlayingWord, disabled, wordMessage,
                 letters, delay, missing, blobs, phase, doneAt,
                 lastPlayWord>>

\* The last timer fires: the setTimeout callback of lines 328-334.
DoneTimer(t) ==
  /\ t \in timers /\ t.kind = "done" /\ IsDue(t.at)
  /\ now' = t.at
  /\ timers' = timers \ {t}
  /\ Completion(t.at, missing)
  /\ UNCHANGED <<policy, trimVars, recVars, letters, delay, missing, blobs, clips, lastPlayWord>>

\* ---- Gap policy (lines 562-600)
\* The promise of step i of the chain resolved at time t with missing miss:
\* the next step's getRecording is called, or the chain's last .then runs.
StepResolved(i, t, miss) ==
  IF i < Len(letters)
  THEN /\ phase' = "lookup"
       /\ UNCHANGED <<isPlayingWord, disabled, wordMessage, doneAt>>
  ELSE Completion(t, miss)

\* LookupFulfilled with the step's promise resolved as soon as play() is
\* called, not by onended or onerror.
LookupFulfilled_NoWait(ok) ==
  /\ policy = "Gap" /\ phase = "lookup"
  /\ LET i    == Len(blobs) + 1
         blob == getRecording(letters[i])
     IN  /\ blobs' = Append(blobs, blob)
         /\ missing' = IF blob = NoClip
                        THEN Append(missing, toUpperCase(letters[i]))
                        ELSE missing
         /\ clips' = IF blob = NoClip THEN clips
                      ELSE clips \cup {StartClip(i, now, blob, ok)}
         /\ StepResolved(i, now, missing')
  /\ UNCHANGED <<policy, trimVars, recVars, letters, delay, timers, now, lastPlayWord>>

\* getRecording(letter) of the current step fulfilled.
LookupFulfilled(ok) ==
  /\ policy = "Gap" /\ phase = "lookup"
  /\ LET i    == Len(blobs) + 1
         blob == getRecording(letters[i])
     IN  /\ blobs' = Append(blobs, blob)
         /\ IF blob = NoClip
            THEN /\ missing' = Append(missing, toUpperCase(letters[i]))
                 /\ StepResolved(i, now, missing')
                 /\ clips' = clips
            ELSE /\ missing' = missing
                 /\ clips' = clips \cup {StartClip(i, now, blob, ok)}
                 /\ phase' = IF ok THEN "playing" ELSE "stalled"
                 /\ UNCHANGED <<isPlayingWord, disabled, wordMessage, doneAt>>
  /\ UNCHANGED <<policy, trimVars, recVars, letters, delay, timers, now,
                 lastPlayWord>>

\* getRecording(letter) of the current step rejected: the chain is rejected
\* and nothing handles it.
LookupRejected ==
  /\ policy = "Gap" /\ phase = "lookup"
  /\ phase' = "rejected"
  /\ UNCHANGED <<policy, trimVars, recVars, isPlayingWord, disabled, wordMessage,
                 letters, delay, missing, blobs, timers, clips, now,
                 doneAt, lastPlayWord>>

\* The setTimeout(resolve, gap) of audio.onended fires.
GapTimer(t) ==
  /\ t \in timers /\ t.kind = "gap" /\ IsDue(t.at)
  /\ now' = t.at
  /\ timers' = timers \ {t}
  /\ StepResolved(t.idx, t.at, missing)
  /\ UNCHANGED <<policy, trimVars, recVars, letters, delay, missing, blobs, clips, lastPlayWord>>

\* ---- media events, both policies
\* ClipEnded with the pause set after the last letter too.
ClipEnded_PauseAfterLast(c) ==
  /\ c \in Playing /\ IsDue(c.end)
  /\ now' = c.end
  /\ clips' = (clips \ {c}) \cup {[c EXCEPT !.how = "ended"]}
  /\ IF policy = "Gap"
     THEN /\ timers' = timers \cup
               {[kind |-> "gap", idx |-> c.idx, at |-> c.end + delay]}
          /\ phase' = "pause"
          /\ UNCHANGED <<isPlayingWord, disabled, wordMessage, doneAt>>
     ELSE UNCHANGED <<timers, phase, isPlayingWord, disabled, wordMessage,
                      doneAt>>
  /\ UNCHANGED <<policy, trimVars, recVars, letters, delay, missing, blobs,
                 lastPlayWord>>

\* audio.onended of clip c.
ClipEnded(c) ==
  /\ c \in Playing /\ IsDue(c.end)
  /\ now' = c.end
  /\ clips' = (clips \ {c}) \cup {[c EXCEPT !.how = "ended"]}
  /\ IF policy = "Gap"
     THEN IF c.idx < Len(letters)
          THEN /\ timers' = timers \cup
                    {[kind |-> "gap", idx |-> c.idx, at |-> c.end + delay]}
               /\ phase' = "pause"
               /\ UNCHANGED <<isPlayingWord, disabled, wordMessage, doneAt>>
          ELSE /\ timers' = timers
               /\ StepResolved(c.idx, c.end, missing)
     ELSE UNCHANGED <<timers, phase, isPlayingWord, disabled, wordMessage,
                      doneAt>>
  /\ UNCHANGED <<policy, trimVars, recVars, letters, delay, missing, blobs,
                 lastPlayWord>>

\* audio.onerror of clip c.
ClipError(c) ==
  /\ c \in Playing
  /\ clips' = (clips \ {c}) \cup {[c EXCEPT !.how = "error", !.end = now]}
  /\ IF policy = "Gap"
     THEN StepResolved(c.idx, now, missing)
     ELSE UNCHANGED <<phase, isPlayingWord, disabled, wordMessage, doneAt>>
  /\ UNCHANGED <<policy, trimVars, recVars, letters, delay, missing, blobs, timers, now, lastPlayWord>>

NextWord ==
  \/ \E raw \in Typed, speed \in Speeds : playWord(raw, speed)
  \/ FetchFulfilled
  \/ FetchRejected
  \/ \E t \in timers, ok \in BOOLEAN : ClipTimer(t, ok)
  \/ \E t \in timers : DoneTimer(t)
  \/ \E ok \in BOOLEAN : LookupFulfilled(ok)
  \/ LookupRejected
  \/ \E t \in timers : GapTimer(t)
  \/ \E c \in clips : ClipEnded(c)
  \/ \E c \in clips : ClipError(c)

NextRec ==
  \/ \E l \in LETTERS : startRecording(l)
  \/ \E r \in Sessions : DeviceGranted(r)
  \/ \E r \in Sessions : DeviceDenied(r)
  \/ \E r \in Sessions : RecorderOnStop(r)
  \/ \E r \in Sessions, ok \in BOOLEAN : TrimSettled(r, ok)
  \/ \E r \in Sessions, ok \in BOOLEAN : SaveTrimmedSettled(r, ok)
  \/ \E r \in Sessions, ok \in BOOLEAN : SaveRawSettled(r, ok)

Next == NextRec \/ NextWord

Spec == Init /\ [][Next]_vars

\* The recorder alone and the word player alone. The word player's actions
\* leave the recorder's variables alone and the recorder's actions read none
\* of the word player's, so SpecRec has the recorder's behaviours of Spec.
\* SpecWord plays words against every content of the store that Init allows,
\* with no recording saved while a word plays.
\* The .then(audioBuffer => ...) callback of trimSilence.
trimSilence ==
  /\ audio # NoAudio
  /\ trimmed = NoTrim
  /\ trimmed' = trimResult(audio)
  /\ UNCHANGED <<audio, policy, recVars, wordVars>>

NextTrim == trimSilence

SpecTrim == InitTrim /\ [][NextTrim]_vars
SpecRec  == Init /\ [][NextRec]_vars
SpecWord == Init /\ [][NextWord]_vars

\* The events of the word player that the browser delivers: a pending
\* lookup settles, a due timer fires, a playing clip ends or fails. The
\* user's calls get no fairness.
FairWord ==
  /\ WF_vars(FetchFulfilled \/ FetchRejected)
  /\ WF_vars((\E ok \in BOOLEAN : LookupFulfilled(ok)) \/ LookupRejected)
  /\ WF_vars(\E t \in timers, ok \in BOOLEAN : ClipTimer(t, ok))
  /\ WF_vars(\E t \in timers : DoneTimer(t))
  /\ WF_vars(\E t \in timers : GapTimer(t))
  /\ WF_vars(\E c \in clips : ClipEnded(c) \/ ClipError(c))
FairSpecWord == SpecWord /\ FairWord

\* ================================================================ claims
RECURSIVE SumMs(_)
\* The playing time of a set of clips.
SumMs(S) ==
  IF S = {} THEN 0
  ELSE LET c == CHOOSE x \in S : TRUE IN (c.end - c.start) + SumMs(S \ {c})

\* The clips of the word that played to their end.
Ended == {c \in clips : c.how = "ended"}
\* The positions of the word's letters that have a stored clip.
WithClip == {i \in 1 .. Len(letters) : store[letters[i]] # NoClip}

\* C1: at most one recorder is in the recording state, whatever the
\* interleaving of startRecording calls, grants and stop events.
C1_AtMostOneRecording == Cardinality(Recording) <= 1

\* C2: a playWord call made while the busy flag is set changes nothing: not
\* the flag, the control, the message, the missing letters, the timers and
\* clips scheduled, nor the plan (letters, lookups, phase, clock).
C2_BusyPlayWordIsNoOp ==
  [][(isPlayingWord /\ \E raw \in Words, speed \in Speeds : playWord(raw, speed))
       => UNCHANGED <<isPlayingWord, disabled, wordMessage, missing, timers,
                      clips, letters, delay, blobs, phase, now, doneAt>>]_vars

\* A playWord call was made, and returned at once, while a plan's timers
\* were pending.
C2_Witness ==
  lastPlayWord = "busy" /\ isPlayingWord /\ disabled /\ timers # {}

\* C3 as stated: under the Offset policy the completion runs
\* (count - 1) * speedParam + 1500 ms after scheduling, a letter without a
\* clip counting as well.
C3_CompletionCountsEverySlot ==
  (policy = "Offset" /\ doneAt # -1)
    => doneAt = (Len(letters) - 1) * delay + EstimateMs

\* C3 amended: under the Offset policy the completion (busy flag cleared,
\* control enabled) runs 1500 ms after the start time of the last letter
\* that has a clip, and at once when no letter has one.
C3_CompletionAfterLastClip ==
  (policy = "Offset" /\ doneAt # -1)
    => /\ ~isPlayingWord /\ ~disabled
       /\ IF WithClip = {} THEN doneAt = 0
          ELSE \E i \in WithClip :
                 /\ \A j \in WithClip : j <= i
                 /\ doneAt = (i - 1) * delay + EstimateMs

\* Letters [a,x], only a stored, speedParam 200: the completion ran at 1500.
C3_Witness ==
  /\ policy = "Offset" /\ doneAt = 1500 /\ delay = 200
  /\ Len(letters) = 2 /\ WithClip = {1}
  /\ wordMessage = <<toUpperCase(letters[2])>>

\* C4: once playWord has set the busy flag it is cleared again, under
\* either policy, also when a lookup or a clip fails.
C4_BusyEventuallyCleared == isPlayingWord ~> ~isPlayingWord

\* C5: under the Gap policy at most one clip of the word plays at a time, a
\* later clip starts only after the earlier clip's ended or error event, and
\* the completion runs only after the event of the last clip.
C5_GapClipsStrictlySequential ==
  policy = "Gap" =>
    /\ Cardinality(Playing) <= 1
    /\ \A c, e \in clips :
         c.idx < e.idx => c.how \in {"ended", "error"} /\ c.end <= e.start
    /\ doneAt # -1 =>
         \A c \in clips : c.how \in {"ended", "error"} /\ c.end <= doneAt

\* A word of two clips has completed under the Gap policy.
C5_Witness ==
  policy = "Gap" /\ doneAt # -1 /\ Cardinality(clips) = 2

\* C6 as stated: under the Gap policy the word takes the played clips'
\* durations plus speedParam times (number of played clips - 1).
C6_PauseAfterAllButLastPlayed ==
  (policy = "Gap" /\ doneAt # -1 /\ Ended # {})
    => doneAt = SumMs(Ended) + delay * (Cardinality(Ended) - 1)

\* C6 amended: under the Gap policy a pause of speedParam follows every clip
\* that played to its end, unless its letter is the last letter of the word:
\* the word takes the played clips' durations plus one pause for every such
\* clip that is not at the last position.
C6_PauseUnlessLastLetter ==
  (policy = "Gap" /\ doneAt # -1)
    => doneAt = SumMs(Ended)
                + delay * Cardinality({c \in Ended : c.idx < Len(letters)})

\* Letters [a,b], both stored, speedParam 300: duration(a) + 300 + duration(b).
C6_Witness ==
  /\ policy = "Gap" /\ delay = 300 /\ letters = <<"a", "b">>
  /\ Cardinality(Ended) = 2
  /\ doneAt = store["a"].ms + 300 + store["b"].ms

RECURSIVE FirstMissing(_, _)
\* The letters of ls without a stored clip, upper-cased, each once, in the
\* order in which they first occur; seen holds those already listed.
FirstMissing(ls, seen) ==
  IF ls = <<>> THEN <<>>
  ELSE IF store[Head(ls)] = NoClip /\ Head(ls) \notin seen
       THEN <<toUpperCase(Head(ls))>> \o FirstMissing(Tail(ls), seen \cup {Head(ls)})
       ELSE FirstMissing(Tail(ls), seen)

\* C7: when the word's completion has run, the message names exactly the
\* letters of the word without a stored clip, upper-cased, each once, in the
\* order of first occurrence; it is empty when every letter has a clip.
C7_MissingLettersReported ==
  doneAt # -1 => wordMessage = FirstMissing(letters, {})

\* A word with the same missing letter twice has completed.
C7_Witness ==
  /\ doneAt # -1 /\ Len(letters) = 2 /\ letters[1] = letters[2]
  /\ WithClip = {} /\ Len(wordMessage) = 1

\* C8: startRecording(l) called while a session for l records stops every
\* such session and requests no new one, and no session is put twice.
C8_ToggleStopsSession ==
  [][\A l \in LETTERS :
       (startRecording(l) /\ \E r \in Recording : sessions[r].letter = l)
         => /\ \A r \in Sessions :
                 sessions[r].letter = l => sessions'[r].state # "recording"
            /\ nextSession' = nextSession
            /\ \A r \in Sessions : sessions[r].puts <= 1]_vars

\* C9: a startRecording(c) call that requests the device leaves no session
\* of another letter recording, and a clip in the store lies under the key
\* of the letter of the session that recorded it.
C9_OtherSessionStoppedFirst ==
  [][\A c \in LETTERS :
       (startRecording(c) /\ nextSession' = nextSession + 1)
         => /\ \A r \in Sessions :
                 sessions[r].letter # c => sessions'[r].state # "recording"
            /\ \A k \in AZ :
                 store[k].src > 0
                   => toLowerCase(sessions[store[k].src].letter) = k]_vars

Persists(r) == sessions[r].state # "saved" /\ sessions'[r].state = "saved"

\* C11: what a session persists goes under the lower-case key of its
\* letter; it is the untrimmed raw clip when trimming the session's clip
\* failed, and the trimmed WAV payload when trimming it succeeded.
C11_TrimOutcomeDecidesPayload ==
  [][\A r \in Sessions :
       Persists(r) =>
         LET c == store'[toLowerCase(sessions[r].letter)] IN
           /\ c.src = r
           /\ \A k \in AZ \ {toLowerCase(sessions[r].letter)} :
                store'[k] = store[k]
           /\ sessions[r].state = "savingRaw" => c.kind = "raw"
           /\ sessions[r].state \in {"savingWav", "resavingRaw"}
                => c.kind = "wav"]_vars

\* ------------------------------------------------------------------- C12
\* The letters of a typed text: its characters that are letters, in their
\* order, each in lower case.
LettersOf(raw) ==
  LET isLetter(c) == c \in AZ \cup LETTERS
      kept == SelectSeq(raw, isLetter)
  IN  [i \in 1 .. Len(kept) |->
         IF kept[i] \in AZ THEN kept[i]
         ELSE CHOOSE k \in AZ : toUpperCase(k) = kept[i]]

\* Every text with what playWord makes of it (lines 283-287) and with its
\* letters.
inputs == {<<raw, filterAZ(trim(raw)), LettersOf(raw)>> : raw \in Words}

\* By what playWord makes of them: the texts, each with its letters.
inputsOf ==
  {<<ls, {<<p[1], p[3]>> : p \in {q \in inputs : q[2] = ls}}>> :
     ls \in {p[2] : p \in inputs}}

\* C12: a playWord that is not busy plays the letters of the input, lower
\* case and in their order; when the input has no letter it is a no-op: the
\* busy flag stays false, the control stays enabled, the message is not
\* cleared and no lookup or playback is started. (A step that returns
\* "empty" is the playWord of a text only if playWord makes no letters of
\* it, and a step that returns "accepted" only if playWord makes of it the
\* letters the step leaves: playWord is evaluated for these texts.)
C12_FilteredLettersOrNoOp ==
  [][(~isPlayingWord /\ lastPlayWord' \in {"empty", "accepted"}) =>
       \A g \in inputsOf :
         g[1] = (IF lastPlayWord' = "empty" THEN <<>> ELSE letters') =>
           \A p \in g[2] :
             playWord(p[1], delay') =>
               IF p[2] = <<>>
               THEN /\ ~isPlayingWord' /\ disabled' = disabled
                    /\ wordMessage' = wordMessage
                    /\ UNCHANGED <<letters, missing, blobs, phase, timers,
                                   clips>>
               ELSE /\ letters' = p[2]
                    /\ isPlayingWord' /\ disabled'
                    /\ phase' \in {"fetching", "lookup"}]_vars

\* A playWord with no letter in the input returned while the message of the
\* word before it was on display.
C12_Witness ==
  /\ lastPlayWord = "empty"
  /\ wordMessage # <<>>
  /\ ~isPlayingWord /\ ~disabled /\ phase = "idle"

\* ------------------------------------------------------------------- C13
\* The channel-0 indices of the decoded audio whose sample is above the
\* threshold in absolute amplitude.
Loud == {i \in DOMAIN audio.peaks :
           audio.peaks[i] > threshold \/ audio.peaks[i] < -threshold}
FirstLoud == CHOOSE i \in Loud : \A j \in Loud : i <= j
LastLoud  == CHOOSE j \in Loud : \A i \in Loud : i <= j

\* C13: start = max(0, i - margin) for the first loud index i and
\* end = min(length, j + margin) for the last loud index j; the window
\* satisfies 0 <= start <= end <= length; the output holds end - start
\* samples per channel.
C13_WindowRule ==
  trimmed # NoTrim =>
    /\ Loud # {} =>
         /\ trimmed.start = max(0, FirstLoud - trimmed.margin)
         /\ trimmed.end = min(audio.length, LastLoud + trimmed.margin)
    /\ 0 <= trimmed.start
    /\ trimmed.start <= trimmed.end
    /\ trimmed.end <= audio.length
    /\ trimmed.offset - 44
         = (trimmed.end - trimmed.start) * audio.numberOfChannels * 2
    /\ trimmed.byteLength = trimmed.offset
    /\ \A o \in DOMAIN trimmed.samples : 44 <= o /\ o + 2 <= trimmed.byteLength

\* A clip with two loud samples apart was trimmed at both ends.
C13_Witness ==
  /\ trimmed # NoTrim
  /\ Loud # {}
  /\ 0 < trimmed.start
  /\ trimmed.end < audio.length
  /\ FirstLoud < LastLoud

\* ------------------------------------------------------------------- C14
\* C14: when no channel-0 sample is above the threshold in absolute
\* amplitude (the zero-length clip included), trimSilence keeps the whole
\* clip: start = 0, end = length, and the output covers every sample.
C14_SilentClipKeptWhole ==
  (trimmed # NoTrim /\ Loud = {}) =>
    /\ trimmed.start = 0
    /\ trimmed.end = audio.length
    /\ trimmed.header.dataSize = audio.length * audio.numberOfChannels * 2
    /\ trimmed.offset = 44 + audio.length * audio.numberOfChannels * 2

\* A clip whose only samples that are not zero are at the threshold, none
\* above it, went through trimSilence.
C14_Witness ==
  /\ trimmed # NoTrim
  /\ Loud = {}
  /\ \E i \in DOMAIN audio.peaks : audio.peaks[i] = threshold
  /\ audio.length > 1

\* ------------------------------------------------------------------- C15
\* C15 as stated: the margin is sampleRate * 0.02 rounded to the nearest
\* sample (Math.round: a half rounds up).
C15_MarginIsRounded ==
  trimmed # NoTrim =>
    /\ trimmed.margin * 100 <= audio.sampleRate * 2 + 50
    /\ audio.sampleRate * 2 + 50 < (trimmed.margin + 1) * 100

\* C15 amended: the margin is sampleRate * 0.02 rounded down to a whole
\* number of samples.
C15_MarginIsRoundedDown ==
  trimmed # NoTrim =>
    /\ trimmed.margin * 100 <= audio.sampleRate * 2
    /\ audio.sampleRate * 2 < (trimmed.margin + 1) * 100

\* A clip went through trimSilence at a sample rate for which
\* sampleRate * 0.02 is not an integer, and the margin moved its window.
C15_Witness ==
  /\ trimmed # NoTrim
  /\ (audio.sampleRate * 2) % 100 # 0
  /\ Loud # {}
  /\ trimmed.start = FirstLoud - trimmed.margin
  /\ trimmed.end = LastLoud + trimmed.margin

\* ------------------------------------------------------------------- C17
\* C17: the WAV payload is 44 + (end - start) * channels * 2 bytes long and
\* its header agrees with it: data chunk size (end - start) * channels * 2,
\* RIFF size 36 + data chunk size, byte rate sampleRate * channels * 2, block
\* align channels * 2, 16 bits per sample; reading the header back gives the
\* sample count, the channel count and the sample rate.
C17_HeaderAgreesWithPayload ==
  trimmed # NoTrim =>
    LET h  == trimmed.header
        n  == trimmed.end - trimmed.start
        nc == audio.numberOfChannels
    IN  /\ trimmed.byteLength = 44 + n * nc * 2
        /\ trimmed.offset = trimmed.byteLength
        /\ h.dataSize = n * nc * 2
        /\ h.riffSize = 36 + h.dataSize
        /\ h.byteRate = audio.sampleRate * nc * 2
        /\ h.blockAlign = nc * 2
        /\ h.bitsPerSample = 16
        /\ h.format = 1 /\ h.fmtSize = 16
        /\ h.numChannels = nc
        /\ h.sampleRate = audio.sampleRate
        /\ h.dataSize \div h.blockAlign = n
        /\ h.byteRate = h.sampleRate * h.blockAlign

\* A two-channel clip was trimmed to a window shorter than the clip and not
\* empty.
C17_Witness ==
  /\ trimmed # NoTrim
  /\ audio.numberOfChannels = 2
  /\ 0 < trimmed.end - trimmed.start
  /\ trimmed.end - trimmed.start < audio.length
  /\ DOMAIN trimmed.samples # {}

\* ------------------------------------------------------------------- C16
\* C16: under the Offset policy the clip of the letter at position i of the
\* filtered letters (from 0, letters without a clip counted) is started
\* i * speedParam ms after scheduling, earlier clips finished or not; a
\* letter without a clip starts nothing.
C16_OffsetStartTimes ==
  policy = "Offset" =>
    /\ \A c \in clips :
         /\ c.idx \in WithClip
         /\ c.start = (c.idx - 1) * delay
         /\ \A e \in clips : e.idx = c.idx => e = c
    /\ \A t \in timers :
         t.kind = "clip" => t.idx \in WithClip /\ t.at = (t.idx - 1) * delay
    /\ phase = "scheduled" =>
         \A i \in WithClip :
           \/ \E c \in clips : c.idx = i
           \/ \E t \in timers : t.kind = "clip" /\ t.idx = i /\ now <= t.at
    /\ (phase = "idle" /\ doneAt # -1) =>
         \A i \in WithClip : \E c \in clips : c.idx = i

\* Letters [a,b], a without a clip: the clip of b was started at
\* 1 * speedParam and plays.
C16_Witness ==
  /\ policy = "Offset"
  /\ Len(letters) = 2 /\ WithClip = {2}
  /\ \E c \in clips : c.idx = 2 /\ c.start = delay /\ c.how = "playing"

\* ------------------------------------------------------------------- C18
\* C18: a recorder in the recording state is the current recorder, and
\* currentRecordingLetter is its letter.
C18_RecordingIsCurrent ==
  \A r \in Recording :
    currentRecorder = r /\ currentRecordingLetter = sessions[r].letter

\* ------------------------------------------------------------------- C19
\* C19: under the Offset policy every clip of a word's plan is started
\* before the word's completion runs: a clip timer is pending only while
\* the word is busy and its completion timer is later, and a clip of the
\* word has started before the completion ran.
C19_ClipsStartBeforeCompletion ==
  policy = "Offset" =>
    /\ \A t \in timers :
         t.kind = "clip" =>
           /\ isPlayingWord /\ phase = "scheduled"
           /\ \E d \in timers : d.kind = "done" /\ t.at < d.at
    /\ doneAt # -1 =>
         /\ \A c \in clips : c.start < doneAt
         /\ \A t \in timers : t.kind # "clip"
    /\ ~isPlayingWord => timers = {}

\* A word of two clips completed under the Offset policy while its last
\* clip was playing.
C19_Witness ==
  /\ policy = "Offset" /\ doneAt # -1
  /\ Cardinality(clips) = 2
  /\ \E c \in Playing : c.idx = 2 /\ c.start < doneAt /\ doneAt < c.end

\* ------------------------------------------------------------------- C20
\* C20: in the revision that trims, a put of a session's untrimmed clip is
\* issued only when trimSilence failed, and not when the put of the trimmed
\* payload failed.
C20_RawPutOnlyAfterTrimFailure ==
  [][\A r \in Sessions :
       (/\ policy = "Offset"
        /\ sessions[r].state \notin {"savingRaw", "resavingRaw"}
        /\ sessions'[r].state \in {"savingRaw", "resavingRaw"})
         => sessions[r].state = "trimming"]_vars

\* ------------------------------------------------------------------- C21
\* C21: the window [start, end) contains every channel-0 index whose sample
\* is above the threshold in absolute amplitude, and the payload carries the
\* sample of each of them: trimming removes no sample classified as sound.
C21_WindowKeepsEveryLoudSample ==
  trimmed # NoTrim =>
    \A i \in Loud :
      /\ trimmed.start <= i
      /\ i < trimmed.end
      /\ \A ch \in 0 .. audio.numberOfChannels - 1 :
           44 + ((i - trimmed.start) * audio.numberOfChannels + ch) * 2
             \in DOMAIN trimmed.samples

\* A two-channel clip with two loud samples, the first past the margin and
\* the last before the final margin, was cut at both ends.
C21_Witness ==
  /\ trimmed # NoTrim
  /\ audio.numberOfChannels = 2
  /\ Cardinality(Loud) = 2
  /\ 0 < trimmed.start
  /\ trimmed.end < audio.length
  /\ trimmed.end = LastLoud + trimmed.margin

=============================================================================
